---- MODULE Spec2Model ----
(***************************************************************************)
(* Streaming prefix sum of mini-stream (main.cpp): a source kernel, the    *)
(* processing kernels (prefixSumSimple, or prefixSumA and prefixSumB) and  *)
(* a sink kernel, connected by blocking pipes of fixed depth, launched     *)
(* and awaited by main.                                                    *)
(*                                                                         *)
(* Element is uint64_t in the source; TLC's integers are 32 bits wide, so  *)
(* the word is scaled down: every Element operation is taken modulo        *)
(* Modulus, which stands for 2^64.  STRM_WIDTH (8 in the source) and       *)
(* STRM_LEN (2^24) are scaled down the same way and drawn in Init.         *)
(* Sequences are 1-based: element[i] of the source is flit[i + 1] here.    *)
(***************************************************************************)
EXTENDS Integers, Sequences, FiniteSets, TLC

\* ------------------------------------------------------------------ bounds
Modulus == 8
MaxWidth == 2
MaxFlits == 5

\* ------------------------------------------------------- program constants
DEFAULT_PIPE_DEPTH == 4

\* ------------------------------------------------------------------- names
InPipe == "InPipe"
OutPipe == "OutPipe"
DataPipe == "DataPipe"
SumPipe == "SumPipe"
Pipes == {InPipe, OutPipe, DataPipe, SumPipe}

Pipe2Output == "Pipe2Output"
PrefixSum == "PrefixSum"
PrefixSumB == "PrefixSumB"
PrefixSumA == "PrefixSumA"
Input2Pipe == "Input2Pipe"
Kernels == {Pipe2Output, PrefixSum, PrefixSumB, PrefixSumA, Input2Pipe}

VARIABLES
  STRM_WIDTH,   \* elements per flit
  STRM_LEN,     \* elements in the stream
  depth,        \* capacity of every pipe
  twoStage,     \* the #if of main: FALSE = prefixSumSimple, TRUE = prefixSumA + prefixSumB
  idataBuf,     \* host input buffer, a sequence of flits
  odataBuf,     \* host output buffer, a sequence of flits
  pipe,         \* pipe name -> records held, oldest first
  written,      \* pipe name -> every record written so far (history)
  readLog,      \* pipe name -> every record read so far (history)
  pc,           \* kernel name -> position
  mainPc,       \* position of main
  exitCode,     \* main's return value, -1 while running
  console,      \* what main's host check and report wrote to std::cout
  srcI,         \* loop counter i of Input2Pipe
  sinkI,        \* loop counter i of Pipe2Output
  simple,       \* locals of prefixSumSimple: prefixSum, oflit
  stageA,       \* locals of prefixSumA: iflit, partialSum
  stageB        \* locals of prefixSumB: sumSoFar, iflit, partialSum, oflit

config == <<STRM_WIDTH, STRM_LEN, depth, twoStage, idataBuf>>
vars == <<STRM_WIDTH, STRM_LEN, depth, twoStage, idataBuf, odataBuf, pipe,
          written, readLog, pc, mainPc, exitCode, console, srcI, sinkI,
          simple, stageA, stageB>>

\* ------------------------------------------------------------ element type
Element == 0 .. (Modulus - 1)

\* Element += Element, with the wraparound of the unsigned type.
ElemAdd(a, b) == (a + b) % Modulus

\* A flit not yet assigned (a transient local outside its tick).
NoFlit == << >>

ZeroFlit(w) == [i \in 1 .. w |-> 0]

\* buf[n / STRM_WIDTH].element[n % STRM_WIDTH]
ElementAt(buf, n) == buf[(n \div STRM_WIDTH) + 1][(n % STRM_WIDTH) + 1]

NumFlits == STRM_LEN \div STRM_WIDTH

\* ---------------------------------------------------------- kernel bodies
\* prefixSumA's unrolled loop: partialSum = 0; partialSum += iflit.element[i]
RECURSIVE PartialSumLoop(_, _, _)
PartialSumLoop(iflit, i, partialSum) ==
  IF i >= Len(iflit) THEN partialSum
  ELSE PartialSumLoop(iflit, i + 1, ElemAdd(partialSum, iflit[i + 1]))

\* Mutant: the loop starts at lane 1 and misses element[0].
MutPartialSum(iflit) == PartialSumLoop(iflit, 1, 0)

PartialSum(iflit) == PartialSumLoop(iflit, 0, 0)

\* The unrolled loop of prefixSumSimple and prefixSumB:
\*   prefixSum += iflit.element[i]; oflit.element[i] = prefixSum
\* Returns the pair <<prefixSum after the loop, oflit>>.
\* Mutant: oflit.element[i] is assigned before prefixSum += iflit.element[i].
RECURSIVE MutPrefixLoop(_, _, _, _)
MutPrefixLoop(iflit, i, prefixSum, oflit) ==
  IF i >= Len(iflit) THEN <<prefixSum, oflit>>
  ELSE MutPrefixLoop(iflit, i + 1, ElemAdd(prefixSum, iflit[i + 1]),
                     Append(oflit, prefixSum))

RECURSIVE PrefixLoop(_, _, _, _)
PrefixLoop(iflit, i, prefixSum, oflit) ==
  IF i >= Len(iflit) THEN <<prefixSum, oflit>>
  ELSE LET s == ElemAdd(prefixSum, iflit[i + 1])
       IN  PrefixLoop(iflit, i + 1, s, Append(oflit, s))

\* Mutant: sumSoFar = partialSum, the running sum is not accumulated.
MutNextSumSoFar(sumSoFar, partialSum) == partialSum

\* sumSoFar += partialSum
NextSumSoFar(sumSoFar, partialSum) == ElemAdd(sumSoFar, partialSum)

\* ------------------------------------------------------------------- pipes
\* Mutant: a write completes on a full pipe (one record too many).
MutPipeHasRoom(q, d) == Len(q) <= d

\* Mutant: a write needs two free places.
MutPipeHasRoomTight(q, d) == Len(q) < d - 1

\* A blocking write completes only when the pipe holds fewer than depth records.
PipeHasRoom(q, d) == Len(q) < d

\* Mutant: a read completes only when two records wait.
MutPipeHasData(q) == Len(q) > 1

\* A blocking read completes only when the pipe holds a record.
PipeHasData(q) == Len(q) > 0

\* Mutant: the pipe is a stack, a write puts the record in front.
MutPipePush(q, rec) == <<rec>> \o q

\* Mutant: a read takes the newest record.
MutPipeFront(q) == q[Len(q)]

PipePush(q, rec) == Append(q, rec)
PipeFront(q) == Head(q)
\* Mutant: a read returns the front record and leaves it in the pipe.
MutPipePop(q) == q

PipePop(q) == Tail(q)

CanWrite(p) == PipeHasRoom(pipe[p], depth)
CanRead(p) == PipeHasData(pipe[p])

\* TPipe::write(rec)
Write(p, rec) ==
  /\ CanWrite(p)
  /\ pipe' = [pipe EXCEPT ![p] = PipePush(@, rec)]
  /\ written' = [written EXCEPT ![p] = Append(@, rec)]
  /\ UNCHANGED readLog

\* TPipe::read(), the record read is PipeFront(pipe[p])
Read(p) ==
  /\ CanRead(p)
  /\ pipe' = [pipe EXCEPT ![p] = PipePop(@)]
  /\ readLog' = [readLog EXCEPT ![p] = Append(@, PipeFront(pipe[p]))]
  /\ UNCHANGED written

\* ------------------------------------------------------------------ inputs
\* The stream main builds is element i = i.  The model draws the streams
\* element i = base + i * step (mod the word) for every base and the steps
\* of Steps: constant, rising (main's own is base 0, step 1) and falling.
Steps == {0, 1, Modulus - 1}

RampBuf(w, k, base, step) ==
  [f \in 1 .. k |->
     [j \in 1 .. w |-> (base + ((f - 1) * w + (j - 1)) * step) % Modulus]]

\* std::vector<Flit> buf(2 * STRM_LEN / STRM_WIDTH): the upper half is
\* value-initialised and never touched.
HostBuf(lower, w) == lower \o [f \in 1 .. Len(lower) |-> ZeroFlit(w)]

InitWith(d) ==
  /\ STRM_WIDTH \in 1 .. MaxWidth
  /\ \E k \in 0 .. MaxFlits :
       /\ STRM_LEN = k * STRM_WIDTH
       /\ \E base \in Element, step \in Steps :
            idataBuf = HostBuf(RampBuf(STRM_WIDTH, k, base, step), STRM_WIDTH)
       /\ odataBuf = HostBuf([f \in 1 .. k |-> ZeroFlit(STRM_WIDTH)], STRM_WIDTH)
  /\ depth = d
  /\ twoStage \in BOOLEAN
  /\ pipe = [p \in Pipes |-> << >>]
  /\ written = [p \in Pipes |-> << >>]
  /\ readLog = [p \in Pipes |-> << >>]
  /\ pc = [u \in Kernels |-> "unsubmitted"]
  /\ mainPc = "submitSink"
  /\ exitCode = -1
  /\ console = << >>
  /\ srcI = 0
  /\ sinkI = 0
  /\ simple = [prefixSum |-> 0, oflit |-> NoFlit]
  /\ stageA = [iflit |-> NoFlit, partialSum |-> 0]
  /\ stageB = [sumSoFar |-> 0, iflit |-> NoFlit, partialSum |-> 0, oflit |-> NoFlit]

Init == InitWith(DEFAULT_PIPE_DEPTH)

\* -------------------------------------------------------------------- main
\* q.submit(...) of a kernel: the kernel may run from now on.
Submit(u, first, next) ==
  /\ pc' = [pc EXCEPT ![u] = first]
  /\ mainPc' = next
  /\ UNCHANGED <<config, console, odataBuf, pipe, written, readLog, exitCode, srcI,
                 sinkI, simple, stageA, stageB>>

\* Mutant: main checks the pipe depth before it launches anything.
MutMainSubmitSink ==
  /\ mainPc = "submitSink"
  /\ depth > 0
  /\ Submit(Pipe2Output, "read", IF twoStage THEN "submitB" ELSE "submitSimple")

MainSubmitSink ==
  /\ mainPc = "submitSink"
  /\ Submit(Pipe2Output, "read", IF twoStage THEN "submitB" ELSE "submitSimple")

MainSubmitSimple ==
  /\ mainPc = "submitSimple"
  /\ Submit(PrefixSum, "read", "submitSource")

MainSubmitB ==
  /\ mainPc = "submitB"
  /\ Submit(PrefixSumB, "readData", "submitA")

MainSubmitA ==
  /\ mainPc = "submitA"
  /\ Submit(PrefixSumA, "read", "submitSource")

MainSubmitSource ==
  /\ mainPc = "submitSource"
  /\ Submit(Input2Pipe, "write", "waitSource")

\* Mutant: the wait gives up and returns although the source still runs.
MutMainWaitSource ==
  /\ mainPc = "waitSource"
  /\ mainPc' = "waitSink"
  /\ UNCHANGED <<config, console, odataBuf, pipe, written, readLog, pc,
                 exitCode, srcI, sinkI, simple, stageA, stageB>>

\* eventSource.wait()
MainWaitSource ==
  /\ mainPc = "waitSource"
  /\ pc[Input2Pipe] = "finished"
  /\ mainPc' = "waitSink"
  /\ UNCHANGED <<config, console, odataBuf, pipe, written, readLog, pc, exitCode,
                 srcI, sinkI, simple, stageA, stageB>>

\* Mutant: eventSink.wait() is missing.
MutMainWaitSink ==
  /\ mainPc = "waitSink"
  /\ mainPc' = "check"
  /\ UNCHANGED <<config, console, odataBuf, pipe, written, readLog, pc, exitCode,
                 srcI, sinkI, simple, stageA, stageB>>

\* eventSink.wait()
MainWaitSink ==
  /\ mainPc = "waitSink"
  /\ pc[Pipe2Output] = "finished"
  /\ mainPc' = "check"
  /\ UNCHANGED <<config, console, odataBuf, pipe, written, readLog, pc, exitCode,
                 srcI, sinkI, simple, stageA, stageB>>

\* The host check: the element index of the first output that differs from
\* the running sum of the inputs, or -1 when there is none.
RECURSIVE HostCheckLoop(_, _, _, _)
HostCheckLoop(idata, odata, n, prefixSum) ==
  IF n >= STRM_LEN THEN -1
  ELSE LET s == ElemAdd(prefixSum, ElementAt(idata, n))
       IN  IF s # ElementAt(odata, n) THEN n
           ELSE HostCheckLoop(idata, odata, n + 1, s)

FirstMismatch(idata, odata) == HostCheckLoop(idata, odata, 0, 0)

\* A line main prints: its text and the stream values it shows (the elapsed
\* time and the bandwidth of the timing report are not modelled).
Line(text, values) == [text |-> text, values |-> values]

\* What main prints when the check fails, and when it passes.
FailureReport == <<Line("Sum incorrect.", << >>)>>
TimingReport ==
  <<Line("(Read->Pipe->Write Different Channel): ms", << >>),
    Line("Streaming BW: GB/sec", << >>)>>

\* Mutant: "Sum incorrect." is printed without the return 1, and main goes
\* on to the timing report and return 0.
MutMainCheck ==
  /\ mainPc = "check"
  /\ exitCode' = 0
  /\ console' = IF FirstMismatch(idataBuf, odataBuf) >= 0
                THEN FailureReport \o TimingReport
                ELSE TimingReport
  /\ mainPc' = "returned"
  /\ UNCHANGED <<config, odataBuf, pipe, written, readLog, pc, srcI, sinkI,
                 simple, stageA, stageB>>

\* "Sum incorrect." and return 1, or the timing report and return 0.
MainCheck ==
  /\ mainPc = "check"
  /\ exitCode' = IF FirstMismatch(idataBuf, odataBuf) >= 0 THEN 1 ELSE 0
  /\ console' = IF FirstMismatch(idataBuf, odataBuf) >= 0 THEN FailureReport
                ELSE TimingReport
  /\ mainPc' = "returned"
  /\ UNCHANGED <<config, odataBuf, pipe, written, readLog, pc, srcI, sinkI,
                 simple, stageA, stageB>>

\* ------------------------------------------------------------- Input2Pipe
SourceWrite ==
  /\ pc[Input2Pipe] = "write"
  /\ srcI < STRM_LEN
  /\ Write(InPipe, idataBuf[(srcI \div STRM_WIDTH) + 1])
  /\ srcI' = srcI + STRM_WIDTH
  /\ UNCHANGED <<config, console, odataBuf, pc, mainPc, exitCode, sinkI, simple,
                 stageA, stageB>>

SourceReturn ==
  /\ pc[Input2Pipe] = "write"
  /\ srcI >= STRM_LEN
  /\ pc' = [pc EXCEPT ![Input2Pipe] = "finished"]
  /\ UNCHANGED <<config, console, odataBuf, pipe, written, readLog, mainPc, exitCode,
                 srcI, sinkI, simple, stageA, stageB>>

\* ------------------------------------------------------------ Pipe2Output
\* Mutant: the loop counts i++ instead of i += STRM_WIDTH.
MutSinkRead ==
  /\ pc[Pipe2Output] = "read"
  /\ sinkI < STRM_LEN
  /\ Read(OutPipe)
  /\ odataBuf' = [odataBuf EXCEPT ![(sinkI \div STRM_WIDTH) + 1] =
                                    PipeFront(pipe[OutPipe])]
  /\ sinkI' = sinkI + 1
  /\ UNCHANGED <<config, console, pc, mainPc, exitCode, srcI, simple, stageA, stageB>>

SinkRead ==
  /\ pc[Pipe2Output] = "read"
  /\ sinkI < STRM_LEN
  /\ Read(OutPipe)
  /\ odataBuf' = [odataBuf EXCEPT ![(sinkI \div STRM_WIDTH) + 1] =
                                    PipeFront(pipe[OutPipe])]
  /\ sinkI' = sinkI + STRM_WIDTH
  /\ UNCHANGED <<config, console, pc, mainPc, exitCode, srcI, simple, stageA, stageB>>

SinkReturn ==
  /\ pc[Pipe2Output] = "read"
  /\ sinkI >= STRM_LEN
  /\ pc' = [pc EXCEPT ![Pipe2Output] = "finished"]
  /\ UNCHANGED <<config, console, odataBuf, pipe, written, readLog, mainPc, exitCode,
                 srcI, sinkI, simple, stageA, stageB>>

\* -------------------------------------------------------- prefixSumSimple
SimpleRead ==
  /\ pc[PrefixSum] = "read"
  /\ Read(InPipe)
  /\ LET r == PrefixLoop(PipeFront(pipe[InPipe]), 0, simple.prefixSum, << >>)
     IN  simple' = [prefixSum |-> r[1], oflit |-> r[2]]
  /\ pc' = [pc EXCEPT ![PrefixSum] = "write"]
  /\ UNCHANGED <<config, console, odataBuf, mainPc, exitCode, srcI, sinkI, stageA,
                 stageB>>

SimpleWrite ==
  /\ pc[PrefixSum] = "write"
  /\ Write(OutPipe, simple.oflit)
  /\ simple' = [simple EXCEPT !.oflit = NoFlit]
  /\ pc' = [pc EXCEPT ![PrefixSum] = "read"]
  /\ UNCHANGED <<config, console, odataBuf, mainPc, exitCode, srcI, sinkI, stageA,
                 stageB>>

\* ------------------------------------------------------------- prefixSumA
\* Mutant: Element partialSum = 0 sits outside the while loop, so a tick
\* starts from the partial sum of the tick before.
MutARead ==
  /\ pc[PrefixSumA] = "read"
  /\ Read(InPipe)
  /\ stageA' = [iflit |-> PipeFront(pipe[InPipe]),
                partialSum |->
                  PartialSumLoop(PipeFront(pipe[InPipe]), 0,
                                 IF written[SumPipe] = << >> THEN 0
                                 ELSE written[SumPipe][Len(written[SumPipe])])]
  /\ pc' = [pc EXCEPT ![PrefixSumA] = "writeSum"]
  /\ UNCHANGED <<config, console, odataBuf, mainPc, exitCode, srcI, sinkI,
                 simple, stageB>>

ARead ==
  /\ pc[PrefixSumA] = "read"
  /\ Read(InPipe)
  /\ stageA' = [iflit |-> PipeFront(pipe[InPipe]),
                partialSum |-> PartialSum(PipeFront(pipe[InPipe]))]
  /\ pc' = [pc EXCEPT ![PrefixSumA] = "writeSum"]
  /\ UNCHANGED <<config, console, odataBuf, mainPc, exitCode, srcI, sinkI, simple,
                 stageB>>

\* Mutant: prefixSumA is instantiated with OutPipe as its TSumPipe.
MutAWriteSum ==
  /\ pc[PrefixSumA] = "writeSum"
  /\ Write(OutPipe, stageA.partialSum)
  /\ pc' = [pc EXCEPT ![PrefixSumA] = "writeData"]
  /\ UNCHANGED <<config, console, odataBuf, mainPc, exitCode, srcI, sinkI,
                 simple, stageA, stageB>>

\* Mutant: the DataPipe write is missing, the tick ends after the SumPipe
\* write.
MutAWriteSumOnly ==
  /\ pc[PrefixSumA] = "writeSum"
  /\ Write(SumPipe, stageA.partialSum)
  /\ stageA' = [iflit |-> NoFlit, partialSum |-> 0]
  /\ pc' = [pc EXCEPT ![PrefixSumA] = "read"]
  /\ UNCHANGED <<config, console, odataBuf, mainPc, exitCode, srcI, sinkI,
                 simple, stageB>>

AWriteSum ==
  /\ pc[PrefixSumA] = "writeSum"
  /\ Write(SumPipe, stageA.partialSum)
  /\ pc' = [pc EXCEPT ![PrefixSumA] = "writeData"]
  /\ UNCHANGED <<config, console, odataBuf, mainPc, exitCode, srcI, sinkI, simple,
                 stageA, stageB>>

\* Mutant: no while (1), the kernel returns after its first tick.
MutAWriteData ==
  /\ pc[PrefixSumA] = "writeData"
  /\ Write(DataPipe, stageA.iflit)
  /\ stageA' = [iflit |-> NoFlit, partialSum |-> 0]
  /\ pc' = [pc EXCEPT ![PrefixSumA] = "finished"]
  /\ UNCHANGED <<config, console, odataBuf, mainPc, exitCode, srcI, sinkI, simple,
                 stageB>>

AWriteData ==
  /\ pc[PrefixSumA] = "writeData"
  /\ Write(DataPipe, stageA.iflit)
  /\ stageA' = [iflit |-> NoFlit, partialSum |-> 0]
  /\ pc' = [pc EXCEPT ![PrefixSumA] = "read"]
  /\ UNCHANGED <<config, console, odataBuf, mainPc, exitCode, srcI, sinkI, simple,
                 stageB>>

\* ------------------------------------------------------------- prefixSumB
\* Mutant: Element sumSoFar = 0 sits inside the while loop.
MutBReadData ==
  /\ pc[PrefixSumB] = "readData"
  /\ Read(DataPipe)
  /\ stageB' = [stageB EXCEPT !.iflit = PipeFront(pipe[DataPipe]),
                              !.sumSoFar = 0]
  /\ pc' = [pc EXCEPT ![PrefixSumB] = "readSum"]
  /\ UNCHANGED <<config, console, odataBuf, mainPc, exitCode, srcI, sinkI,
                 simple, stageA>>

BReadData ==
  /\ pc[PrefixSumB] = "readData"
  /\ Read(DataPipe)
  /\ stageB' = [stageB EXCEPT !.iflit = PipeFront(pipe[DataPipe])]
  /\ pc' = [pc EXCEPT ![PrefixSumB] = "readSum"]
  /\ UNCHANGED <<config, console, odataBuf, mainPc, exitCode, srcI, sinkI, simple,
                 stageA>>

\* Mutant: sumSoFar += partialSum runs before the unrolled loop.
MutBReadSum ==
  /\ pc[PrefixSumB] = "readSum"
  /\ Read(SumPipe)
  /\ LET partialSum == PipeFront(pipe[SumPipe])
         s == NextSumSoFar(stageB.sumSoFar, partialSum)
         r == PrefixLoop(stageB.iflit, 0, s, << >>)
     IN  stageB' = [sumSoFar |-> s,
                    iflit |-> stageB.iflit,
                    partialSum |-> partialSum,
                    oflit |-> r[2]]
  /\ pc' = [pc EXCEPT ![PrefixSumB] = "write"]
  /\ UNCHANGED <<config, console, odataBuf, mainPc, exitCode, srcI, sinkI, simple,
                 stageA>>

\* The read of SumPipe, the unrolled loop and sumSoFar += partialSum.
BReadSum ==
  /\ pc[PrefixSumB] = "readSum"
  /\ Read(SumPipe)
  /\ LET partialSum == PipeFront(pipe[SumPipe])
         r == PrefixLoop(stageB.iflit, 0, stageB.sumSoFar, << >>)
     IN  stageB' = [sumSoFar |-> NextSumSoFar(stageB.sumSoFar, partialSum),
                    iflit |-> stageB.iflit,
                    partialSum |-> partialSum,
                    oflit |-> r[2]]
  /\ pc' = [pc EXCEPT ![PrefixSumB] = "write"]
  /\ UNCHANGED <<config, console, odataBuf, mainPc, exitCode, srcI, sinkI, simple,
                 stageA>>

\* Mutant: no while (1), the kernel returns after its first tick.
MutBWrite ==
  /\ pc[PrefixSumB] = "write"
  /\ Write(OutPipe, stageB.oflit)
  /\ stageB' = [stageB EXCEPT !.iflit = NoFlit, !.partialSum = 0,
                              !.oflit = NoFlit]
  /\ pc' = [pc EXCEPT ![PrefixSumB] = "finished"]
  /\ UNCHANGED <<config, console, odataBuf, mainPc, exitCode, srcI, sinkI, simple,
                 stageA>>

BWrite ==
  /\ pc[PrefixSumB] = "write"
  /\ Write(OutPipe, stageB.oflit)
  /\ stageB' = [stageB EXCEPT !.iflit = NoFlit, !.partialSum = 0,
                              !.oflit = NoFlit]
  /\ pc' = [pc EXCEPT ![PrefixSumB] = "readData"]
  /\ UNCHANGED <<config, console, odataBuf, mainPc, exitCode, srcI, sinkI, simple,
                 stageA>>

\* ---------------------------------------------------------- specification
Next ==
  \/ MainSubmitSink
  \/ MainSubmitSimple
  \/ MainSubmitB
  \/ MainSubmitA
  \/ MainSubmitSource
  \/ MainWaitSource
  \/ MainWaitSink
  \/ MainCheck
  \/ SourceWrite
  \/ SourceReturn
  \/ SinkRead
  \/ SinkReturn
  \/ SimpleRead
  \/ SimpleWrite
  \/ ARead
  \/ AWriteSum
  \/ AWriteData
  \/ BReadData
  \/ BReadSum
  \/ BWrite

Spec == Init /\ [][Next]_vars

\* ------------------------------------------------------- units and fairness
MainStep ==
  \/ MainSubmitSink
  \/ MainSubmitSimple
  \/ MainSubmitB
  \/ MainSubmitA
  \/ MainSubmitSource
  \/ MainWaitSource
  \/ MainWaitSink
  \/ MainCheck

SourceStep == SourceWrite \/ SourceReturn
SinkStep == SinkRead \/ SinkReturn
SimpleStep == SimpleRead \/ SimpleWrite
AStep == ARead \/ AWriteSum \/ AWriteData
BStep == BReadData \/ BReadSum \/ BWrite

\* A kernel the runtime has started and that has not returned.
Running(u) == pc[u] \notin {"unsubmitted", "finished"}

\* A running kernel whose next operation, a pipe read or write, cannot complete.
Blocked(u) ==
  /\ Running(u)
  /\ CASE u = Input2Pipe -> ~ENABLED SourceStep
       [] u = Pipe2Output -> ~ENABLED SinkStep
       [] u = PrefixSum -> ~ENABLED SimpleStep
       [] u = PrefixSumA -> ~ENABLED AStep
       [] u = PrefixSumB -> ~ENABLED BStep

\* Every kernel and main is scheduled again and again while it can step.
Fairness ==
  /\ WF_vars(MainStep)
  /\ WF_vars(SourceStep)
  /\ WF_vars(SinkStep)
  /\ WF_vars(SimpleStep)
  /\ WF_vars(AStep)
  /\ WF_vars(BStep)

FairSpec == Init /\ [][Next]_vars /\ Fairness

\* Every pipe at depth 1.
MinDepthSpec == InitWith(1) /\ [][Next]_vars

\* ------------------------------------------------------ reference values
\* The integer sum of input elements 0 .. n (no wraparound).
RECURSIVE InputSum(_)
InputSum(n) == IF n < 0 THEN 0 ELSE ElementAt(idataBuf, n) + InputSum(n - 1)

\* Output element n as the prefix sum demands it: the sum of input elements
\* 0 .. n, modulo the word.
ExpectedElement(n) == InputSum(n) % Modulus

\* The integer sum of the elements of a flit.
RECURSIVE FlitSum(_)
FlitSum(flit) == IF flit = << >> THEN 0 ELSE Head(flit) + FlitSum(Tail(flit))

IsPrefix(s, t) == Len(s) <= Len(t) /\ SubSeq(t, 1, Len(s)) = s

\* The flits of the stream proper (the lower half of the input buffer).
InputFlits == SubSeq(idataBuf, 1, NumFlits)

\* What prefixSumSimple writes to its output pipe when it reads iflits[k + 1 ..],
\* starting tick k + 1 with the given prefixSum.
RECURSIVE SimpleRun(_, _, _)
SimpleRun(iflits, k, prefixSum) ==
  IF k >= Len(iflits) THEN << >>
  ELSE LET r == PrefixLoop(iflits[k + 1], 0, prefixSum, << >>)
       IN  <<r[2]>> \o SimpleRun(iflits, k + 1, r[1])

\* ------------------------------------------------------------------ claims
\* C1: once the sink has collected all STRM_LEN / STRM_WIDTH flits, output
\* element i is the sum of input elements 0 .. i modulo the word, for every
\* i, and the host check then finds no mismatch and main returns 0.
C1_PrefixSumCorrect ==
  sinkI >= STRM_LEN =>
    /\ \A i \in 0 .. (STRM_LEN - 1) :
         ElementAt(odataBuf, i) = ExpectedElement(i)
    /\ FirstMismatch(idataBuf, odataBuf) = -1
    /\ (mainPc = "returned" => exitCode = 0)

\* C1 witness: the two-stage pipeline has run a stream of MaxFlits flits of
\* MaxWidth elements whose sum wraps around, and main has returned.
C1_Witness ==
  /\ twoStage
  /\ mainPc = "returned"
  /\ STRM_WIDTH = MaxWidth
  /\ NumFlits = MaxFlits
  /\ InputSum(STRM_LEN - 1) >= Modulus
  /\ ElementAt(odataBuf, STRM_LEN - 1) # 0

\* C2: whichever processing kernels main launches, the flits written to
\* OutPipe are, flit for flit, those prefixSumSimple produces from the input
\* stream, and all of them once the sink is through.
C2_TwoStageEqualsSimple ==
  /\ IsPrefix(written[OutPipe], SimpleRun(InputFlits, 0, 0))
  /\ (sinkI >= STRM_LEN => written[OutPipe] = SimpleRun(InputFlits, 0, 0))

\* C2 witness: prefixSumB has written the last flit of a stream whose running
\* sum has wrapped around.
C2_Witness ==
  /\ twoStage
  /\ NumFlits = MaxFlits
  /\ STRM_WIDTH = MaxWidth
  /\ Len(written[OutPipe]) = NumFlits
  /\ InputSum(STRM_LEN - 1) >= 2 * Modulus

SinkIncomplete == Len(readLog[OutPipe]) < NumFlits

\* Main or some kernel can take a step.
SomeUnitCanStep ==
  \/ ENABLED MainStep
  \/ ENABLED SourceStep
  \/ ENABLED SinkStep
  \/ ENABLED SimpleStep
  \/ ENABLED AStep
  \/ ENABLED BStep

\* The sink has read exactly the flits of the stream and has returned.
SinkComplete ==
  /\ Len(readLog[OutPipe]) = NumFlits
  /\ pc[Pipe2Output] = "finished"

\* C4: with every pipe at depth DEFAULT_PIPE_DEPTH, no state is reached in
\* which the sink lacks flits and no unit can step, and under fair scheduling
\* the sink ends up having read exactly STRM_LEN / STRM_WIDTH flits.
C4_CompletesAtDefaultDepth ==
  /\ [](depth = DEFAULT_PIPE_DEPTH /\ (SinkIncomplete => SomeUnitCanStep))
  /\ <>[]SinkComplete

\* C4 witness: the two-stage pipeline delivered a stream longer than the
\* pipes are deep and the sink has returned.
C4_Witness ==
  /\ twoStage
  /\ depth = DEFAULT_PIPE_DEPTH
  /\ NumFlits = MaxFlits
  /\ NumFlits > DEFAULT_PIPE_DEPTH
  /\ SinkComplete

\* The value the output buffer holds at flit index f (1-based) once the sink
\* has stored its flit.
ExpectedFlit(f) ==
  [j \in 1 .. STRM_WIDTH |-> ExpectedElement((f - 1) * STRM_WIDTH + (j - 1))]

\* C5: in every state of every interleaving of the pipe operations of the
\* kernels, what the sink has stored is a function of the input stream alone:
\* the first sinkI / STRM_WIDTH flits of the one expected output, the rest
\* of the buffer still zero.
C5_OutputIndependentOfInterleaving ==
  /\ Len(odataBuf) = 2 * NumFlits
  /\ \A f \in 1 .. Len(odataBuf) :
       odataBuf[f] = IF f <= (sinkI \div STRM_WIDTH) THEN ExpectedFlit(f)
                     ELSE ZeroFlit(STRM_WIDTH)

\* C5 witness: all four kernels of the two-stage pipeline are in the middle
\* of the stream at once: the source still has flits to write, prefixSumA
\* sits between its two writes, prefixSumB between its two reads, and the
\* sink has stored a non-zero flit.
C5_Witness ==
  /\ twoStage
  /\ srcI < STRM_LEN
  /\ pc[PrefixSumA] = "writeData"
  /\ pc[PrefixSumB] = "readSum"
  /\ sinkI >= 2 * STRM_WIDTH
  /\ odataBuf[2] # ZeroFlit(STRM_WIDTH)
  /\ odataBuf[1] # odataBuf[2]

\* C6: the k-th flit prefixSumB reads from DataPipe and the k-th partial sum
\* it reads from SumPipe both come from tick k of prefixSumA: the flit is
\* input flit k and the partial sum is the sum of its elements modulo the
\* word; SumPipe is read right after DataPipe in every tick.
C6_SumAndDataPaired ==
  /\ Len(readLog[DataPipe]) - Len(readLog[SumPipe]) =
       (IF pc[PrefixSumB] = "readSum" THEN 1 ELSE 0)
  /\ \A k \in 1 .. Len(readLog[DataPipe]) : readLog[DataPipe][k] = idataBuf[k]
  /\ \A k \in 1 .. Len(readLog[SumPipe]) :
       readLog[SumPipe][k] = FlitSum(idataBuf[k]) % Modulus
  /\ (pc[PrefixSumB] = "write" =>
        stageB.partialSum = FlitSum(stageB.iflit) % Modulus)

\* C6 witness: prefixSumB holds the flit and the partial sum of its second
\* tick, the two flits so far have different sums, and prefixSumA has
\* already written a partial sum whose flit is not in DataPipe yet.
C6_Witness ==
  /\ pc[PrefixSumB] = "write"
  /\ Len(readLog[SumPipe]) = 2
  /\ readLog[SumPipe][1] # readLog[SumPipe][2]
  /\ stageB.iflit[1] # 0
  /\ pc[PrefixSumA] = "writeData"
  /\ Len(pipe[SumPipe]) > Len(pipe[DataPipe])

C8_NoDeadlockAtDepthOne ==
  /\ depth = 1
  /\ (SinkIncomplete => SomeUnitCanStep)

\* C8 witness: at depth 1 prefixSumA has filled SumPipe and is about to
\* write DataPipe while prefixSumB is suspended on the empty DataPipe and
\* the source is suspended on the full InPipe.
C8_Witness ==
  /\ depth = 1
  /\ pc[PrefixSumA] = "writeData"
  /\ Len(pipe[SumPipe]) = 1
  /\ Len(pipe[DataPipe]) = 0
  /\ Blocked(PrefixSumB)
  /\ Blocked(Input2Pipe)
  /\ SinkIncomplete

\* C9: the source writes the flits of the input buffer to InPipe in order,
\* NumFlits of them and no more; the sink reads NumFlits flits from OutPipe
\* and no more, and the k-th flit it read is at output buffer index k.
C9_AdaptersMoveExactlyTheStream ==
  /\ Len(written[InPipe]) = srcI \div STRM_WIDTH
  /\ Len(written[InPipe]) <= NumFlits
  /\ written[InPipe] = SubSeq(idataBuf, 1, Len(written[InPipe]))
  /\ (pc[Input2Pipe] = "finished" => Len(written[InPipe]) = NumFlits)
  /\ Len(readLog[OutPipe]) <= NumFlits
  /\ sinkI = Len(readLog[OutPipe]) * STRM_WIDTH
  /\ \A k \in 1 .. Len(readLog[OutPipe]) : odataBuf[k] = readLog[OutPipe][k]
  /\ (pc[Pipe2Output] = "finished" => Len(readLog[OutPipe]) = NumFlits)

\* C9 witness: both adapters have returned after a stream of MaxFlits flits
\* of more than one element, and main has returned.
C9_Witness ==
  /\ pc[Input2Pipe] = "finished"
  /\ pc[Pipe2Output] = "finished"
  /\ mainPc = "returned"
  /\ NumFlits = MaxFlits
  /\ STRM_WIDTH > 1
  /\ odataBuf[NumFlits] # ZeroFlit(STRM_WIDTH)

\* C10 as claimed: when main has returned no kernel is blocked on a pipe
\* operation.
C10_NoUnitBlockedAtExit ==
  mainPc = "returned" => \A u \in Kernels : ~Blocked(u)

\* C10 as amended: when main has returned the source and the sink have
\* returned, all four pipes are empty, and every processing kernel that was
\* launched is suspended on the read that begins its next tick (prefixSumA
\* and prefixSumSimple on InPipe, prefixSumB on DataPipe).
C10_AdaptersDoneKernelsParked ==
  mainPc = "returned" =>
    /\ pc[Input2Pipe] = "finished"
    /\ pc[Pipe2Output] = "finished"
    /\ \A p \in Pipes : pipe[p] = << >>
    /\ (twoStage =>
          /\ pc[PrefixSumA] = "read" /\ Blocked(PrefixSumA)
          /\ pc[PrefixSumB] = "readData" /\ Blocked(PrefixSumB)
          /\ pc[PrefixSum] = "unsubmitted")
    /\ (~twoStage =>
          /\ pc[PrefixSum] = "read" /\ Blocked(PrefixSum)
          /\ pc[PrefixSumA] = "unsubmitted"
          /\ pc[PrefixSumB] = "unsubmitted")

\* C10 witness: main has returned 0 after a stream of one flit, with
\* prefixSumA and prefixSumB both still suspended.
C10_Witness ==
  /\ mainPc = "returned"
  /\ exitCode = 0
  /\ twoStage
  /\ NumFlits = 1
  /\ Blocked(PrefixSumA)
  /\ Blocked(PrefixSumB)

\* The processing kernels.
ProcessingKernels == {PrefixSum, PrefixSumA, PrefixSumB}

\* The pipe operation a processing kernel is at: <<"read" or "write", pipe>>.
PendingOp(u) ==
  CASE u = PrefixSum /\ pc[u] = "read" -> <<"read", InPipe>>
    [] u = PrefixSum /\ pc[u] = "write" -> <<"write", OutPipe>>
    [] u = PrefixSumA /\ pc[u] = "read" -> <<"read", InPipe>>
    [] u = PrefixSumA /\ pc[u] = "writeSum" -> <<"write", SumPipe>>
    [] u = PrefixSumA /\ pc[u] = "writeData" -> <<"write", DataPipe>>
    [] u = PrefixSumB /\ pc[u] = "readData" -> <<"read", DataPipe>>
    [] u = PrefixSumB /\ pc[u] = "readSum" -> <<"read", SumPipe>>
    [] u = PrefixSumB /\ pc[u] = "write" -> <<"write", OutPipe>>
    [] OTHER -> <<"none", "none">>

\* C11: no processing kernel ever returns; a launched one is always at a pipe
\* operation of its loop, and it is suspended exactly when that operation is
\* a read of an empty pipe or a write to a full pipe (otherwise it can step).
C11_KernelsPerpetual ==
  \A u \in ProcessingKernels :
    /\ pc[u] # "finished"
    /\ (pc[u] # "unsubmitted" =>
          /\ PendingOp(u)[1] \in {"read", "write"}
          /\ (Blocked(u) <=>
                \/ PendingOp(u)[1] = "read" /\ pipe[PendingOp(u)[2]] = << >>
                \/ PendingOp(u)[1] = "write" /\
                     Len(pipe[PendingOp(u)[2]]) = depth))

\* C11 witness: main has returned after a stream of MaxFlits flits and
\* prefixSumA and prefixSumB are both still in their loops, suspended.
C11_Witness ==
  /\ twoStage
  /\ mainPc = "returned"
  /\ NumFlits = MaxFlits
  /\ Running(PrefixSumA) /\ Blocked(PrefixSumA)
  /\ Running(PrefixSumB) /\ Blocked(PrefixSumB)
  /\ Len(written[OutPipe]) = MaxFlits

\* The program built with DEFAULT_PIPE_DEPTH as it is, or with 0 in its
\* place: a pipe of depth 0 holds no record, so no write to it completes.
ConfigSpec ==
  /\ \E d \in {0, DEFAULT_PIPE_DEPTH} : InitWith(d)
  /\ [][Next]_vars

\* The positions of main at which it launches a kernel.
SubmitPositions ==
  {"submitSink", "submitSimple", "submitB", "submitA", "submitSource"}

\* The kernels main launches in this build.
Launched ==
  {Pipe2Output, Input2Pipe} \cup
    (IF twoStage THEN {PrefixSumA, PrefixSumB} ELSE {PrefixSum})

Corrupted(k, n, delta, onward) ==
  [f \in 1 .. k |->
     [j \in 1 .. STRM_WIDTH |->
        LET m == (f - 1) * STRM_WIDTH + (j - 1)
        IN  IF m = n \/ (onward /\ m > n)
            THEN (ExpectedElement(m) + delta) % Modulus
            ELSE ExpectedElement(m)]]

\* main at its host check, the kernels as they are when the waits return,
\* with an output buffer that is right or wrong in some place.
CheckInit ==
  /\ STRM_WIDTH \in 1 .. MaxWidth
  /\ \E k \in 0 .. MaxFlits :
       /\ STRM_LEN = k * STRM_WIDTH
       /\ \E base \in Element, step \in Steps :
            idataBuf = HostBuf(RampBuf(STRM_WIDTH, k, base, step), STRM_WIDTH)
       /\ \E n \in 0 .. (k * STRM_WIDTH), delta \in Element, onward \in BOOLEAN :
            odataBuf = HostBuf(Corrupted(k, n, delta, onward), STRM_WIDTH)
  /\ depth = DEFAULT_PIPE_DEPTH
  /\ twoStage \in BOOLEAN
  /\ pipe = [p \in Pipes |-> << >>]
  /\ written = [p \in Pipes |-> << >>]
  /\ readLog = [p \in Pipes |-> << >>]
  /\ pc = [u \in Kernels |->
             CASE u \in {Input2Pipe, Pipe2Output} -> "finished"
               [] u = PrefixSum -> IF twoStage THEN "unsubmitted" ELSE "read"
               [] u = PrefixSumA -> IF twoStage THEN "read" ELSE "unsubmitted"
               [] u = PrefixSumB -> IF twoStage THEN "readData" ELSE "unsubmitted"]
  /\ mainPc = "check"
  /\ exitCode = -1
  /\ console = << >>
  /\ srcI = STRM_LEN
  /\ sinkI = STRM_LEN
  /\ simple = [prefixSum |-> 0, oflit |-> NoFlit]
  /\ stageA = [iflit |-> NoFlit, partialSum |-> 0]
  /\ stageB = [sumSoFar |-> 0, iflit |-> NoFlit, partialSum |-> 0, oflit |-> NoFlit]

CheckSpec == CheckInit /\ [][MainCheck]_vars

\* Some collected output element differs from the reference prefix sum.
SomeMismatch ==
  \E i \in 0 .. (STRM_LEN - 1) : ElementAt(odataBuf, i) # ExpectedElement(i)

PipelineStalled ==
  /\ mainPc \in {"waitSource", "waitSink"}
  /\ SinkIncomplete
  /\ \A u \in Launched : Blocked(u)

TicksSummed == Len(readLog[SumPipe])

\* C15: sumSoFar is 0 before the first tick of prefixSumB and, from the
\* update of tick k to the update of tick k + 1, the sum modulo the word
\* of all elements of the first k input flits; a step changes it only by
\* adding the partial sum just read from SumPipe, once per tick.
C15_SumSoFarIsSumOfFlitsSoFar ==
  /\ [](stageB.sumSoFar = InputSum(TicksSummed * STRM_WIDTH - 1) % Modulus)
  /\ [](twoStage /\ pc[PrefixSumB] \in {"unsubmitted", "readData", "readSum"} =>
          TicksSummed = Len(written[OutPipe]))
  /\ [][IF readLog'[SumPipe] # readLog[SumPipe]
        THEN /\ pc[PrefixSumB] = "readSum"
             /\ stageB'.sumSoFar =
                  (stageB.sumSoFar + PipeFront(pipe[SumPipe])) % Modulus
        ELSE stageB'.sumSoFar = stageB.sumSoFar]_vars

\* C15 witness: prefixSumB starts its fourth tick with a sumSoFar that has
\* wrapped around and is not 0.
C15_Witness ==
  /\ pc[PrefixSumB] = "readData"
  /\ TicksSummed = 3
  /\ stageB.sumSoFar # 0
  /\ InputSum(3 * STRM_WIDTH - 1) >= Modulus
  /\ STRM_WIDTH = MaxWidth

\* C16: in the two-stage build the k-th value prefixSumA writes to SumPipe
\* is the sum modulo the word of the elements of the k-th flit it read from
\* InPipe and of nothing else, and the k-th flit it writes to DataPipe is
\* that flit, element for element; between ticks it holds nothing.
C16_StageAStateless ==
  twoStage =>
    /\ \A k \in 1 .. Len(written[SumPipe]) :
         written[SumPipe][k] = FlitSum(readLog[InPipe][k]) % Modulus
    /\ \A k \in 1 .. Len(written[DataPipe]) :
         /\ written[DataPipe][k] = readLog[InPipe][k]
         /\ Len(written[DataPipe][k]) = STRM_WIDTH
    /\ (pc[PrefixSumA] \in {"unsubmitted", "read"} =>
          /\ stageA = [iflit |-> NoFlit, partialSum |-> 0]
          /\ Len(written[SumPipe]) = Len(readLog[InPipe])
          /\ Len(written[DataPipe]) = Len(readLog[InPipe]))

\* C16 witness: prefixSumA has finished three ticks on flits of MaxWidth
\* elements; the first two flits have non-zero sums and the second and third
\* partial sums differ.
C16_Witness ==
  /\ twoStage
  /\ STRM_WIDTH = MaxWidth
  /\ pc[PrefixSumA] = "read"
  /\ Len(written[DataPipe]) = 3
  /\ written[SumPipe][1] # 0
  /\ written[SumPipe][2] # 0
  /\ written[SumPipe][2] # written[SumPipe][3]

\* The step leaves every pipe outside S as it is.
PipesUntouchedExcept(S) ==
  \A p \in Pipes \ S :
    /\ pipe'[p] = pipe[p]
    /\ written'[p] = written[p]
    /\ readLog'[p] = readLog[p]

\* The step writes nothing to the pipes of S, and reads nothing from them.
NoWriteTo(S) == \A p \in S : written'[p] = written[p]
NoReadFrom(S) == \A p \in S : readLog'[p] = readLog[p]

\* C17: a step of a unit changes only that unit's own locals and the pipes
\* it is wired to, in the direction it is wired: the source only writes
\* InPipe; prefixSumA (prefixSumSimple) only reads InPipe and only writes
\* SumPipe and DataPipe (OutPipe); prefixSumB only reads SumPipe and
\* DataPipe and only writes OutPipe; the sink only reads OutPipe; main
\* touches no pipe and no kernel's locals.  So sumSoFar changes in steps of
\* prefixSumB only, and every pipe that is used has one producer and one
\* consumer.
C17_UnitsTouchOnlyTheirOwn ==
  [][/\ (SourceStep =>
           /\ UNCHANGED <<odataBuf, sinkI, simple, stageA, stageB>>
           /\ PipesUntouchedExcept({InPipe})
           /\ NoReadFrom({InPipe}))
     /\ (AStep =>
           /\ UNCHANGED <<odataBuf, srcI, sinkI, simple, stageB>>
           /\ PipesUntouchedExcept({InPipe, SumPipe, DataPipe})
           /\ NoWriteTo({InPipe})
           /\ NoReadFrom({SumPipe, DataPipe}))
     /\ (BStep =>
           /\ UNCHANGED <<odataBuf, srcI, sinkI, simple, stageA>>
           /\ PipesUntouchedExcept({SumPipe, DataPipe, OutPipe})
           /\ NoWriteTo({SumPipe, DataPipe})
           /\ NoReadFrom({OutPipe}))
     /\ (SimpleStep =>
           /\ UNCHANGED <<odataBuf, srcI, sinkI, stageA, stageB>>
           /\ PipesUntouchedExcept({InPipe, OutPipe})
           /\ NoWriteTo({InPipe})
           /\ NoReadFrom({OutPipe}))
     /\ (SinkStep =>
           /\ UNCHANGED <<srcI, simple, stageA, stageB>>
           /\ PipesUntouchedExcept({OutPipe})
           /\ NoWriteTo({OutPipe}))
     /\ (MainStep =>
           /\ UNCHANGED <<odataBuf, srcI, sinkI, simple, stageA, stageB>>
           /\ PipesUntouchedExcept({}))
     /\ (stageB'.sumSoFar # stageB.sumSoFar => BStep)
     /\ (written'[InPipe] # written[InPipe] => SourceStep)
     /\ (readLog'[InPipe] # readLog[InPipe] =>
           IF twoStage THEN AStep ELSE SimpleStep)
     /\ (written'[SumPipe] # written[SumPipe] => AStep)
     /\ (written'[DataPipe] # written[DataPipe] => AStep)
     /\ (readLog'[SumPipe] # readLog[SumPipe] => BStep)
     /\ (readLog'[DataPipe] # readLog[DataPipe] => BStep)
     /\ (written'[OutPipe] # written[OutPipe] =>
           IF twoStage THEN BStep ELSE SimpleStep)
     /\ (readLog'[OutPipe] # readLog[OutPipe] => SinkStep)
    ]_vars

\* C17 witness: in the two-stage build every pipe has been written and read,
\* sumSoFar is not 0 and the sink has stored a flit.
C17_Witness ==
  /\ twoStage
  /\ \A p \in Pipes : Len(written[p]) >= 2 /\ Len(readLog[p]) >= 1
  /\ stageB.sumSoFar # 0
  /\ sinkI > 0
  /\ odataBuf[1] # ZeroFlit(STRM_WIDTH)

\* The host has passed both waits and reads the output buffer.
HostComparing == mainPc \in {"check", "returned"}

\* C18: when the host compares, the source has written all N/W flits and
\* has returned, the sink has read all N/W flits and has returned, and flit
\* k of the output buffer is the k-th flit the sink read; each sink read
\* stores its flit at the next index, once, and nothing else stores into
\* the output buffer, so each of the N elements was written once; a step
\* of main changes neither buffer, no pipe and no kernel's values.
C18_HostComparesAfterStreamDone ==
  /\ [](HostComparing =>
          /\ pc[Input2Pipe] = "finished"
          /\ pc[Pipe2Output] = "finished"
          /\ Len(written[InPipe]) = NumFlits
          /\ Len(readLog[OutPipe]) = NumFlits
          /\ \A k \in 1 .. NumFlits : odataBuf[k] = readLog[OutPipe][k]
          /\ \A k \in NumFlits + 1 .. Len(odataBuf) :
               odataBuf[k] = ZeroFlit(STRM_WIDTH))
  /\ [][/\ IF readLog'[OutPipe] # readLog[OutPipe]
           THEN /\ Len(readLog[OutPipe]) < NumFlits
                /\ odataBuf' =
                     [odataBuf EXCEPT ![Len(readLog[OutPipe]) + 1] =
                                        PipeFront(pipe[OutPipe])]
           ELSE odataBuf' = odataBuf
        /\ (MainStep =>
              /\ UNCHANGED <<idataBuf, odataBuf, pipe, written, readLog>>
              /\ UNCHANGED <<srcI, sinkI, simple, stageA, stageB>>)
        /\ (HostComparing => UNCHANGED <<odataBuf, pipe, written, readLog>>)
       ]_vars

\* C18 witness: the host is about to compare a stream of at least three
\* flits whose last output flit is not zero.
C18_Witness ==
  /\ mainPc = "check"
  /\ NumFlits >= 3
  /\ Len(readLog[OutPipe]) = NumFlits
  /\ odataBuf[NumFlits] # ZeroFlit(STRM_WIDTH)

\* Completed writes of prefixSumA and completed reads of prefixSumB.
ws == Len(written[SumPipe])
wd == Len(written[DataPipe])
rs == Len(readLog[SumPipe])
rd == Len(readLog[DataPipe])

\* C19: prefixSumA writes SumPipe then DataPipe and prefixSumB reads
\* DataPipe then SumPipe, so ws >= wd >= rd >= rs with ws - wd <= 1 and
\* rd - rs <= 1, and SumPipe holds between 0 and 2 entries more than
\* DataPipe.
C19_SumPipeLeadsDataPipe ==
  twoStage =>
    /\ ws >= wd /\ wd >= rd /\ rd >= rs
    /\ ws - wd <= 1
    /\ rd - rs <= 1
    /\ Len(pipe[SumPipe]) = ws - rs
    /\ Len(pipe[DataPipe]) = wd - rd
    /\ Len(pipe[SumPipe]) - Len(pipe[DataPipe]) \in 0 .. 2
    /\ ws - wd = (IF pc[PrefixSumA] = "writeData" THEN 1 ELSE 0)
    /\ rd - rs = (IF pc[PrefixSumB] = "readSum" THEN 1 ELSE 0)

\* C19 witness: prefixSumA is between its two writes and prefixSumB is
\* between its two reads: SumPipe holds two entries more than DataPipe.
C19_Witness ==
  /\ twoStage
  /\ ws - wd = 1
  /\ rd - rs = 1
  /\ rs >= 1
  /\ Len(pipe[DataPipe]) >= 1
  /\ Len(pipe[SumPipe]) - Len(pipe[DataPipe]) = 2

\* The output flit of the latest tick of prefixSumB that has updated
\* sumSoFar: the one about to be written, or else the last one written.
LatestOflit ==
  IF pc[PrefixSumB] = "write" THEN stageB.oflit
  ELSE written[OutPipe][Len(written[OutPipe])]

\* C20: once a tick of prefixSumB has updated sumSoFar, sumSoFar equals
\* the last element of that tick's output flit, the running prefixSum the
\* unrolled loop ended with: the old sumSoFar plus prefixSumA's partial sum
\* is that flit's last element, modulo the word.
C20_SumSoFarIsLastOutputElement ==
  /\ [](twoStage /\ TicksSummed >= 1 =>
          /\ Len(LatestOflit) = STRM_WIDTH
          /\ stageB.sumSoFar = LatestOflit[STRM_WIDTH])
  /\ [][readLog'[SumPipe] # readLog[SumPipe] =>
          /\ pc'[PrefixSumB] = "write"
          /\ stageB'.oflit[STRM_WIDTH] =
               (stageB.sumSoFar + PipeFront(pipe[SumPipe])) % Modulus
          /\ stageB'.oflit =
               PrefixLoop(stageB.iflit, 0, stageB.sumSoFar, << >>)[2]
          /\ stageB'.sumSoFar =
               PrefixLoop(stageB.iflit, 0, stageB.sumSoFar, << >>)[1]]_vars

\* C20 witness: prefixSumB has completed at least two ticks of a stream
\* whose flits are wider than one element, and the last output flit's
\* first and last elements differ.
C20_Witness ==
  /\ twoStage
  /\ STRM_WIDTH >= 2
  /\ pc[PrefixSumB] = "readData"
  /\ Len(written[OutPipe]) >= 2
  /\ stageB.sumSoFar # 0
  /\ LatestOflit[1] # LatestOflit[STRM_WIDTH]
  /\ written[OutPipe][1][STRM_WIDTH] # LatestOflit[STRM_WIDTH]

\* The program built with every pipe at depth 1, or at DEFAULT_PIPE_DEPTH.
DepthSpec ==
  /\ \E d \in {1, DEFAULT_PIPE_DEPTH} : InitWith(d)
  /\ [][Next]_vars

\* Flits the source has written that the sink has not read yet.
InFlight == Len(written[InPipe]) - Len(readLog[OutPipe])

\* The flit prefixSumA holds from its InPipe read to its DataPipe write,
\* and the one prefixSumB holds from its DataPipe read to its OutPipe write.
HeldInA == IF pc[PrefixSumA] \in {"writeSum", "writeData"} THEN 1 ELSE 0
HeldInB == IF pc[PrefixSumB] \in {"readSum", "write"} THEN 1 ELSE 0

====
